---------------------------- MODULE Spec2Model ----------------------------
(* Model of BalatroTUI: the card deck, the round of a run, the scorer,    *)
(* the card list selection and the game loop's event handlers.            *)
EXTENDS Integers, Sequences, FiniteSets, Bags, TLC

(**************************************************************************)
(* Bounds of the model.                                                   *)
(**************************************************************************)
\* number of cards of the deck of a game (Game::new builds the 52 card deck)
DeckSize == 5
\* RunProperties::hand_size / RoundProperties::hand_size of a game
HandSize == 2
\* the same two for a run whose round is driven call by call
RoundDeckSize == 8
RoundHandSize == 4
\* largest RunProperties::max_hands a run of the model starts with
MaxHands == 2
\* RunProperties::max_discards of the model
MaxDiscards == 1
\* selection limit handed to CardListWidgetState::selection_limit
SelectionLimit == 1
\* largest deck the deck operations are applied to on their own
MaxDeckLen == 4
\* largest draw size requested from draw_random on its own
MaxDraw == 5

\* the antes get_target_score is asked for: 1..MaxAnte
MaxAnte == 9

\* the suits of the cards the scorer is given: 1..ScorerSuits, and how many
\* cards of a hand may be of another suit than the first
ScorerSuits == 2

MaxOffSuit == 1

\* the indices an index set is made of: 0..MaxIndex
MaxIndex == 2

\* the suits of the cards that are compared: 1..OrderSuits
OrderSuits == 2

\* longest list a cursor is moved over on its own
MaxListLen == 3

\* most events the channel of the event handler holds at a time
MaxEvents == 2

\* deck and hand size of the game whose loop is fed from the channel
LoopDeckSize == 2
LoopHandSize == 1

\* number of cards of the deck of a run that is played on after its end
FinishDeckSize == 9
\* hand size of that run
FinishHandSize == 4

(**************************************************************************)
(* Card model: card.rs                                                    *)
(**************************************************************************)
Ace == 1
Two == 2
King == 13
NumRanks == 13
NumSuits == 4

Card(r, s) == [rank |-> r, suit |-> s]

\* get_score answering the ordinal of the rank
get_score_by_ordinal(rank) == rank

\* Rank::get_score: the "score" property of the variant
get_score(rank) == IF rank = Ace \/ rank > 10 THEN 10 ELSE rank

\* impl Ord for Rank: cmp
RankCmp(self, other) ==
    IF self = Ace THEN "Greater"
    ELSE IF other = Ace THEN "Less"
    ELSE IF self < other THEN "Less"
    ELSE IF self > other THEN "Greater"
    ELSE "Equal"

\* #[derive(Ord)] on Suit: the order of the variants
SuitCmp(self, other) ==
    IF self < other THEN "Less"
    ELSE IF self > other THEN "Greater"
    ELSE "Equal"

\* #[derive(Ord)] on Card: the fields in their order, rank then suit
CardCmp(self, other) ==
    IF RankCmp(self.rank, other.rank) # "Equal"
    THEN RankCmp(self.rank, other.rank)
    ELSE SuitCmp(self.suit, other.suit)

\* impl Sub for Rank: difference of the ordinals
RankSub(self, rhs) == self - rhs

\* the comparison sort_by_key makes on the key (Reverse(rank), suit):
\* the tuple's lt takes partial_cmp of the first components, Reverse swaps
\* its operands, and the suits decide only when that answers Equal
RankKeyLt(a, b) ==
    LET c == RankCmp(b.rank, a.rank)
    IN  IF c # "Equal" THEN c = "Less" ELSE a.suit < b.suit

\* one step of the stable sort: x goes before the first element it is less than
RECURSIVE InsertByRank(_, _)
InsertByRank(sorted, x) ==
    IF sorted = <<>> THEN <<x>>
    ELSE IF RankKeyLt(x, Head(sorted)) THEN <<x>> \o sorted
    ELSE <<Head(sorted)>> \o InsertByRank(Tail(sorted), x)

\* Sortable::sort_by_rank / sorted_by_rank (a stable sort)
RECURSIVE SortFrom(_, _)
SortFrom(acc, cards) ==
    IF cards = <<>> THEN acc
    ELSE SortFrom(InsertByRank(acc, Head(cards)), Tail(cards))

sort_by_rank(cards) == SortFrom(<<>>, cards)

(**************************************************************************)
(* Deck: deck.rs                                                          *)
(**************************************************************************)
\* DEFAULT_DECK: Rank::iter() x Suit::iter(), ranks outer
DEFAULT_DECK ==
    [i \in 1..(NumRanks * NumSuits) |->
        Card(((i - 1) \div NumSuits) + 1, ((i - 1) % NumSuits) + 1)]

\* the cards the bounded deck is made of, in the order they are added as
\* DeckSize grows
ModelCards ==
    << Card(King, 1), Card(King, 2), Card(Two, 1), Card(Ace, 1),
       Card(Two, 2), Card(King, 3), Card(King, 4), Card(Ace, 2),
       Card(3, 1), Card(3, 2), Card(12, 1), Card(12, 2) >>

\* Deck::standard(), cut down to the first size cards of ModelCards
standard(size) ==
    SelectSeq(DEFAULT_DECK,
              LAMBDA c : \E i \in 1..size : ModelCards[i] = c)

SeqToBag(s) ==
    LET elems == {s[i] : i \in DOMAIN s}
    IN  [e \in elems |-> Cardinality({i \in DOMAIN s : s[i] = e})]

RECURSIVE Perms(_)
Perms(S) ==
    IF S = {} THEN {<<>>}
    ELSE UNION {{<<x>> \o p : p \in Perms(S \ {x})} : x \in S}

\* DeckExt::shuffle: every permutation of the deck is a possible outcome
shuffle(deck) ==
    {[i \in 1..Len(deck) |-> deck[p[i]]] : p \in Perms(1..Len(deck))}

\* draw_random handing out one card fewer than it takes off the deck
draw_random_drops_one(deck, draw_size) ==
    IF draw_size > Len(deck)
    THEN {[err |-> "HandsExhaustedError", drawn |-> <<>>, deck |-> deck]}
    ELSE {[err   |-> "Ok",
           drawn |-> SubSeq(s, Len(s) - draw_size + 2, Len(s)),
           deck  |-> SubSeq(s, 1, Len(s) - draw_size)] : s \in shuffle(deck)}

\* draw_random handing out copies: the cards drawn stay on the deck
draw_random_keeps_deck(deck, draw_size) ==
    IF draw_size > Len(deck)
    THEN {[err |-> "HandsExhaustedError", drawn |-> <<>>, deck |-> deck]}
    ELSE {[err   |-> "Ok",
           drawn |-> SubSeq(s, Len(s) - draw_size + 1, Len(s)),
           deck  |-> s] : s \in shuffle(deck)}

\* DeckExt::draw_random: the set of outcomes [err, drawn, deck]
draw_random(deck, draw_size) ==
    IF draw_size > Len(deck)
    THEN {[err |-> "HandsExhaustedError", drawn |-> <<>>, deck |-> deck]}
    ELSE {[err   |-> "Ok",
           drawn |-> SubSeq(s, Len(s) - draw_size + 1, Len(s)),
           deck  |-> SubSeq(s, 1, Len(s) - draw_size)] : s \in shuffle(deck)}


(**************************************************************************)
(* Grouping: card.rs, Sortable::grouped_by_suit / grouped_by_rank         *)
(**************************************************************************)
\* the (key, count) entries of the HashMap built by the fold
RankGroups(cards) ==
    {<<r, Cardinality({i \in DOMAIN cards : cards[i].rank = r})>> :
        r \in {cards[i].rank : i \in DOMAIN cards}}

SuitGroups(cards) ==
    {<<s, Cardinality({i \in DOMAIN cards : cards[i].suit = s})>> :
        s \in {cards[i].suit : i \in DOMAIN cards}}

\* into_iter().sorted_by_key(count).rev(): the HashMap hands its entries out
\* in an order of its own, so every order of the entries with the counts
\* descending is a possible outcome
CountOrders(groups) ==
    {g \in Perms(groups) : \A i \in 1..(Len(g) - 1) : g[i][2] >= g[i + 1][2]}

grouped_by_rank(cards) == CountOrders(RankGroups(cards))

grouped_by_suit(cards) == CountOrders(SuitGroups(cards))

(**************************************************************************)
(* Scorer: scorer.rs                                                      *)
(**************************************************************************)
ScoringHands ==
    [FlushFive     |-> [chips |-> 160, multiplier |-> 16],
     FlushHouse    |-> [chips |-> 140, multiplier |-> 14],
     FiveOfAKind   |-> [chips |-> 120, multiplier |-> 12],
     RoyalFlush    |-> [chips |-> 100, multiplier |-> 8],
     StraightFlush |-> [chips |-> 60,  multiplier |-> 7],
     FourOfAKind   |-> [chips |-> 40,  multiplier |-> 4],
     FullHouse     |-> [chips |-> 35,  multiplier |-> 4],
     Flush         |-> [chips |-> 30,  multiplier |-> 4],
     Straight      |-> [chips |-> 30,  multiplier |-> 3],
     ThreeOfAKind  |-> [chips |-> 20,  multiplier |-> 2],
     TwoPair       |-> [chips |-> 20,  multiplier |-> 2],
     Pair          |-> [chips |-> 10,  multiplier |-> 2],
     HighCard      |-> [chips |-> 5,   multiplier |-> 1]]

\* Scorer::get_chips_and_multiplier
get_chips_and_multiplier(scoring_hand) == ScoringHands[scoring_hand]

Repeat(x, n) == [i \in 1..n |-> x]

RanksOf(cards) == [i \in DOMAIN cards |-> cards[i].rank]

NotAce(rank) == rank # Ace

HasRank(cards, rank) == \E i \in DOMAIN cards : cards[i].rank = rank

\* Scorer::test_straight on the rank-sorted cards: [found, high_ace, scored_ranks]
\* with high_ace one of "None", "Some(false)", "Some(true)"
NoStraight == [found |-> FALSE, high_ace |-> "None", scored_ranks |-> <<>>]

\* test_straight taking any four ranks in a row with an Ace for a straight
test_straight_any_ace(cards) ==
    LET has_ace == HasRank(cards, Ace)
        ranks_without_ace == SelectSeq(RanksOf(cards), NotAce)
        comparator == [i \in DOMAIN ranks_without_ace |->
                          RankSub(ranks_without_ace[1], ranks_without_ace[i])]
        is_partial_straight == comparator = <<0, 1, 2, 3>>
        is_low_straight == has_ace /\ is_partial_straight
        is_high_straight == has_ace /\ is_partial_straight /\ HasRank(cards, King)
    IN  IF Len(comparator) < 4 THEN NoStraight
        ELSE IF comparator = <<0, 1, 2, 3, 4>>
        THEN [found |-> TRUE, high_ace |-> "None",
              scored_ranks |-> ranks_without_ace]
        ELSE IF is_low_straight
        THEN [found |-> TRUE, high_ace |-> "Some(false)",
              scored_ranks |-> Append(ranks_without_ace, Ace)]
        ELSE IF is_high_straight
        THEN [found |-> TRUE, high_ace |-> "Some(true)",
              scored_ranks |-> <<Ace>> \o ranks_without_ace]
        ELSE NoStraight

\* test_straight reporting the low Ace as a high one
test_straight_low_is_high(cards) ==
    LET has_ace == HasRank(cards, Ace)
        ranks_without_ace == SelectSeq(RanksOf(cards), NotAce)
        comparator == [i \in DOMAIN ranks_without_ace |->
                          RankSub(ranks_without_ace[1], ranks_without_ace[i])]
        is_partial_straight == comparator = <<0, 1, 2, 3>>
        is_low_straight == has_ace /\ is_partial_straight /\ HasRank(cards, Two)
        is_high_straight == has_ace /\ is_partial_straight /\ HasRank(cards, King)
    IN  IF Len(comparator) < 4 THEN NoStraight
        ELSE IF comparator = <<0, 1, 2, 3, 4>>
        THEN [found |-> TRUE, high_ace |-> "None",
              scored_ranks |-> ranks_without_ace]
        ELSE IF is_low_straight
        THEN [found |-> TRUE, high_ace |-> "Some(true)",
              scored_ranks |-> Append(ranks_without_ace, Ace)]
        ELSE IF is_high_straight
        THEN [found |-> TRUE, high_ace |-> "Some(true)",
              scored_ranks |-> <<Ace>> \o ranks_without_ace]
        ELSE NoStraight

test_straight(cards) ==
    LET has_ace == HasRank(cards, Ace)
        ranks_without_ace == SelectSeq(RanksOf(cards), NotAce)
        comparator == [i \in DOMAIN ranks_without_ace |->
                          RankSub(ranks_without_ace[1], ranks_without_ace[i])]
        is_partial_straight == comparator = <<0, 1, 2, 3>>
        is_low_straight == has_ace /\ is_partial_straight /\ HasRank(cards, Two)
        is_high_straight == has_ace /\ is_partial_straight /\ HasRank(cards, King)
    IN  IF Len(comparator) < 4 THEN NoStraight
        ELSE IF comparator = <<0, 1, 2, 3, 4>>
        THEN [found |-> TRUE, high_ace |-> "None",
              scored_ranks |-> ranks_without_ace]
        ELSE IF is_low_straight
        THEN [found |-> TRUE, high_ace |-> "Some(false)",
              scored_ranks |-> Append(ranks_without_ace, Ace)]
        ELSE IF is_high_straight
        THEN [found |-> TRUE, high_ace |-> "Some(true)",
              scored_ranks |-> <<Ace>> \o ranks_without_ace]
        ELSE NoStraight

\* the body of get_scoring_hand with five of a kind tested before flush
\* five, and the full house before the flush house
ScoringHandOf_kinds_first(cards, suit_groups, rank_groups, straight) ==
    LET first == Repeat(rank_groups[1][1], rank_groups[1][2])
        both  == first \o Repeat(rank_groups[2][1], rank_groups[2][2])
    IN  IF rank_groups[1][2] = 5
        THEN [hand |-> "FiveOfAKind", ranks |-> first]
        ELSE IF suit_groups[1][2] = 5 /\ rank_groups[1][2] = 5
        THEN [hand |-> "FlushFive", ranks |-> first]
        ELSE IF Len(rank_groups) >= 2 /\ rank_groups[1][2] = 3
                /\ rank_groups[2][2] = 2
        THEN [hand |-> "FullHouse", ranks |-> both]
        ELSE IF Len(rank_groups) >= 2 /\ suit_groups[1][2] = 5
                /\ rank_groups[1][2] = 3 /\ rank_groups[2][2] = 2
        THEN [hand |-> "FlushHouse", ranks |-> both]
        ELSE IF suit_groups[1][2] = 5 /\ straight.found
        THEN IF straight.high_ace = "Some(true)"
             THEN [hand |-> "RoyalFlush", ranks |-> straight.scored_ranks]
             ELSE [hand |-> "StraightFlush", ranks |-> straight.scored_ranks]
        ELSE IF rank_groups[1][2] = 4
        THEN [hand |-> "FourOfAKind", ranks |-> first]
        ELSE IF suit_groups[1][2] = 5
        THEN [hand |-> "Flush", ranks |-> RanksOf(cards)]
        ELSE IF straight.found
        THEN [hand |-> "Straight", ranks |-> straight.scored_ranks]
        ELSE IF rank_groups[1][2] = 3
        THEN [hand |-> "ThreeOfAKind", ranks |-> first]
        ELSE IF Len(rank_groups) >= 2 /\ rank_groups[1][2] = 2
                /\ rank_groups[2][2] = 2
        THEN [hand |-> "TwoPair", ranks |-> both]
        ELSE IF rank_groups[1][2] = 2
        THEN [hand |-> "Pair", ranks |-> first]
        ELSE [hand |-> "HighCard", ranks |-> first]

\* the body of Scorer::get_scoring_hand for one outcome of the two groupings
ScoringHandOf(cards, suit_groups, rank_groups, straight) ==
    LET first == Repeat(rank_groups[1][1], rank_groups[1][2])
        both  == first \o Repeat(rank_groups[2][1], rank_groups[2][2])
    IN  IF suit_groups[1][2] = 5 /\ rank_groups[1][2] = 5
        THEN [hand |-> "FlushFive", ranks |-> first]
        ELSE IF Len(rank_groups) >= 2 /\ suit_groups[1][2] = 5
                /\ rank_groups[1][2] = 3 /\ rank_groups[2][2] = 2
        THEN [hand |-> "FlushHouse", ranks |-> both]
        ELSE IF rank_groups[1][2] = 5
        THEN [hand |-> "FiveOfAKind", ranks |-> first]
        ELSE IF suit_groups[1][2] = 5 /\ straight.found
        THEN IF straight.high_ace = "Some(true)"
             THEN [hand |-> "RoyalFlush", ranks |-> straight.scored_ranks]
             ELSE [hand |-> "StraightFlush", ranks |-> straight.scored_ranks]
        ELSE IF rank_groups[1][2] = 4
        THEN [hand |-> "FourOfAKind", ranks |-> first]
        ELSE IF Len(rank_groups) >= 2 /\ rank_groups[1][2] = 3
                /\ rank_groups[2][2] = 2
        THEN [hand |-> "FullHouse", ranks |-> both]
        ELSE IF suit_groups[1][2] = 5
        THEN [hand |-> "Flush", ranks |-> RanksOf(cards)]
        ELSE IF straight.found
        THEN [hand |-> "Straight", ranks |-> straight.scored_ranks]
        ELSE IF rank_groups[1][2] = 3
        THEN [hand |-> "ThreeOfAKind", ranks |-> first]
        ELSE IF Len(rank_groups) >= 2 /\ rank_groups[1][2] = 2
                /\ rank_groups[2][2] = 2
        THEN [hand |-> "TwoPair", ranks |-> both]
        ELSE IF rank_groups[1][2] = 2
        THEN [hand |-> "Pair", ranks |-> first]
        ELSE [hand |-> "HighCard", ranks |-> first]

\* Scorer::get_scoring_hand: the set of outcomes [hand, ranks]; hand is
\* "None" for no cards
get_scoring_hand(cards) ==
    LET sorted_cards == sort_by_rank(cards)
        straight == test_straight(sorted_cards)
    IN  IF cards = <<>> THEN {[hand |-> "None", ranks |-> <<>>]}
        ELSE {ScoringHandOf(cards, sg, rg, straight) :
                 sg \in grouped_by_suit(sorted_cards),
                 rg \in grouped_by_rank(sorted_cards)}

\* Scorer::score_chips_from_ranks
RECURSIVE score_chips_from_ranks(_)
score_chips_from_ranks(ranks) ==
    IF ranks = <<>> THEN 0
    ELSE get_score(Head(ranks)) + score_chips_from_ranks(Tail(ranks))

\* Scorer::score_cards after get_scoring_hand has answered [hand, ranks].
\* The checked operations stay far below the width of usize for hands of
\* cards.
score_scoring_hand(sh) ==
    (get_chips_and_multiplier(sh.hand).chips + score_chips_from_ranks(sh.ranks))
        * get_chips_and_multiplier(sh.hand).multiplier

\* Scorer::score_cards: the set of scores the call may return; empty when
\* the call fails (no cards)
score_cards(cards) ==
    {score_scoring_hand(sh) :
        sh \in {o \in get_scoring_hand(cards) : o.hand # "None"}}

(**************************************************************************)
(* Blind: blind.rs                                                        *)
(**************************************************************************)
BLIND_BASE_AMOUNTS == <<3, 8, 20, 50, 110, 200, 350, 500>>

chips_multiplier == 25

\* the score_multiplier property of the blind's variant
score_multiplier(blind) ==
    IF blind.kind = "Small" THEN 2 ELSE IF blind.kind = "Big" THEN 3 ELSE 4

\* boss_blind_multiplier that knows no boss of its own target
boss_blind_multiplier_flat(blind) == 2

boss_blind_multiplier(blind) ==
    IF blind.kind = "Boss"
    THEN IF blind.boss = "Wall" THEN 4
         ELSE IF blind.boss = "Needle" THEN 1 ELSE 2
    ELSE 2

\* Blind::get_target_score: [err, value]
get_target_score(blind, ante) ==
    IF ante >= Len(BLIND_BASE_AMOUNTS)
    THEN [err |-> "AnteExceeded", value |-> 0]
    ELSE [err |-> "Ok",
          value |-> chips_multiplier * score_multiplier(blind)
                      * boss_blind_multiplier(blind) * BLIND_BASE_AMOUNTS[ante]]

(**************************************************************************)
(* Index sets: iter_index_ext.rs (indices count from 0)                   *)
(**************************************************************************)
RECURSIVE PickFrom(_, _, _, _)
PickFrom(cards, index_set, idx, want) ==
    IF cards = <<>> THEN <<>>
    ELSE (IF (idx \in index_set) = want THEN <<Head(cards)>> ELSE <<>>)
            \o PickFrom(Tail(cards), index_set, idx + 1, want)

\* IterIndexExt::drain_from_index_set: [selected, leftover]
drain_from_index_set(cards, index_set) ==
    [selected |-> PickFrom(cards, index_set, 0, TRUE),
     leftover |-> PickFrom(cards, index_set, 0, FALSE)]

\* IterIndexExt::peek_at_index_set: [err, cards]
peek_at_index_set(cards, index_set) ==
    IF \E idx \in index_set : idx >= Len(cards)
    THEN [err |-> "InvalidIndex", cards |-> <<>>]
    ELSE [err |-> "Ok", cards |-> PickFrom(cards, index_set, 0, TRUE)]

(**************************************************************************)
(* Round: round.rs. A round is the record of the fields the operations    *)
(* read and write; an operation yields the set of its outcomes.           *)
(**************************************************************************)
\* Round::start: [round, err]. try_write on the deck fails while another
\* holder has its lock; the hand is a new Arc, whose lock nobody holds
start(round, hand_size) ==
    IF "deck" \in round.locked
    THEN {[round |-> round, err |-> "DeckLockError"]}
    ELSE {IF d.err # "Ok" THEN [round |-> round, err |-> d.err]
          ELSE [round |-> [round EXCEPT !.deck = d.deck,
                                        !.hand = sort_by_rank(d.drawn),
                                        !.locked = @ \ {"hand"}],
                err |-> "Ok"] : d \in draw_random(round.deck, hand_size)}

\* deal_cards drawing one card more than it was handed
deal_cards_one_more(round, last_cards) ==
    {IF d.err # "Ok"
     THEN [round |-> round, cards |-> last_cards, err |-> d.err]
     ELSE [round |-> [round EXCEPT
                        !.deck = d.deck,
                        !.history = round.history \o last_cards,
                        !.hand = sort_by_rank(round.hand \o d.drawn)],
           cards |-> <<>>, err |-> "Ok"] :
        d \in draw_random(round.deck, Len(last_cards) + 1)}

\* deal_cards putting the last cards in front of the history
deal_cards_history_in_front(round, last_cards) ==
    {IF d.err # "Ok"
     THEN [round |-> round, cards |-> last_cards, err |-> d.err]
     ELSE [round |-> [round EXCEPT
                        !.deck = d.deck,
                        !.history = last_cards \o round.history,
                        !.hand = sort_by_rank(round.hand \o d.drawn)],
           cards |-> <<>>, err |-> "Ok"] :
        d \in draw_random(round.deck, Len(last_cards))}

\* deal_cards that takes the hand whether its lock is free or not
deal_cards_ignores_hand_lock(round, last_cards) ==
    IF "deck" \in round.locked
    THEN {[round |-> round, cards |-> last_cards, err |-> "DeckLockError"]}
    ELSE {IF d.err # "Ok"
          THEN [round |-> round, cards |-> last_cards, err |-> d.err]
          ELSE [round |-> [round EXCEPT
                             !.deck = d.deck,
                             !.history = round.history \o last_cards,
                             !.hand = sort_by_rank(round.hand \o d.drawn)],
                cards |-> <<>>, err |-> "Ok"] :
             d \in draw_random(round.deck, Len(last_cards))}

\* Round::deal_cards: [round, cards, err], cards being what is left in the
\* caller's vector. Each try_write fails while another holder has the
\* lock: on the deck before anything is done, on the hand after the cards
\* were drawn and the last cards went to the history
deal_cards(round, last_cards) ==
    IF "deck" \in round.locked
    THEN {[round |-> round, cards |-> last_cards, err |-> "DeckLockError"]}
    ELSE {IF d.err # "Ok"
          THEN [round |-> round, cards |-> last_cards, err |-> d.err]
          ELSE IF "hand" \in round.locked
          THEN [round |-> [round EXCEPT
                             !.deck = d.deck,
                             !.history = round.history \o last_cards],
                cards |-> <<>>, err |-> "DeckLockError"]
          ELSE [round |-> [round EXCEPT
                             !.deck = d.deck,
                             !.history = round.history \o last_cards,
                             !.hand = sort_by_rank(round.hand \o d.drawn)],
                cards |-> <<>>, err |-> "Ok"] :
             d \in draw_random(round.deck, Len(last_cards))}

\* play_hand that leaves hands_count as it is
play_hand_keeps_count(round, played_cards) ==
    IF round.hands_count = 0
    THEN {[round |-> round, cards |-> played_cards,
           err |-> "HandsExhaustedError"]}
    ELSE IF score_cards(played_cards) = {}
         THEN {[round |-> round, cards |-> played_cards,
                err |-> "EmptyHandScored"]}
         ELSE UNION {deal_cards([round EXCEPT !.score = @ + s],
                                played_cards) :
                        s \in score_cards(played_cards)}

\* play_hand without the test of hands_count
play_hand_unguarded(round, played_cards) ==
    LET counted == [round EXCEPT !.hands_count = @ - 1]
    IN  IF score_cards(played_cards) = {}
        THEN {[round |-> counted, cards |-> played_cards,
               err |-> "EmptyHandScored"]}
        ELSE UNION {deal_cards([counted EXCEPT !.score = @ + s],
                               played_cards) :
                       s \in score_cards(played_cards)}

\* Round::play_hand
play_hand(round, played_cards) ==
    IF round.hands_count = 0
    THEN {[round |-> round, cards |-> played_cards,
           err |-> "HandsExhaustedError"]}
    ELSE LET counted == [round EXCEPT !.hands_count = @ - 1]
         IN  IF score_cards(played_cards) = {}
             THEN {[round |-> counted, cards |-> played_cards,
                    err |-> "EmptyHandScored"]}
             ELSE UNION {deal_cards([counted EXCEPT !.score = @ + s],
                                    played_cards) :
                            s \in score_cards(played_cards)}

\* discard_hand that takes a hand as well as a discard
discard_hand_costs_hand(round, discarded_cards) ==
    IF round.discards_count = 0
    THEN {[round |-> round, cards |-> discarded_cards,
           err |-> "DiscardsExhaustedError"]}
    ELSE deal_cards([round EXCEPT !.discards_count = @ - 1,
                                  !.hands_count = @ - 1], discarded_cards)

\* Round::discard_hand
discard_hand(round, discarded_cards) ==
    IF round.discards_count = 0
    THEN {[round |-> round, cards |-> discarded_cards,
           err |-> "DiscardsExhaustedError"]}
    ELSE deal_cards([round EXCEPT !.discards_count = @ - 1], discarded_cards)

(**************************************************************************)
(* Card list: card_list.rs. pos is <<>> for None and <<p>> for Some(p).   *)
(**************************************************************************)
\* SelectableList::move_next
move_next(pos, len) ==
    IF pos # <<>> THEN <<(pos[1] + len + 1) % len>> ELSE <<0>>

\* SelectableList::move_prev
move_prev(pos, len) ==
    IF pos # <<>> THEN <<(pos[1] + len - 1) % len>> ELSE <<0>>

\* SelectableList::select: the selection after the call
select(pos, sel, limit) ==
    IF limit < Cardinality(sel) THEN sel
    ELSE IF pos # <<>> THEN sel \cup {pos[1]}
    ELSE sel

\* SelectableList::deselect
deselect(pos, sel) ==
    IF pos # <<>> THEN sel \ {pos[1]} ELSE sel

\* CycleCursor::cycle_next: [pos, err]; the remainder by the length of an
\* empty list panics
cycle_next(pos, max_items) ==
    IF max_items = 0 THEN [pos |-> pos, err |-> "Panic"]
    ELSE [pos |-> <<((IF pos = <<>> THEN max_items - 1 ELSE pos[1])
                        + max_items + 1) % max_items>>,
          err |-> "Ok"]

\* CycleCursor::cycle_prev
cycle_prev(pos, max_items) ==
    IF max_items = 0 THEN [pos |-> pos, err |-> "Panic"]
    ELSE [pos |-> <<((IF pos = <<>> THEN max_items ELSE pos[1])
                        + max_items - 1) % max_items>>,
          err |-> "Ok"]

(**************************************************************************)
(* State                                                                  *)
(**************************************************************************)
VARIABLES
    deck,            \* Round::deck / Run::deck, the shared Vec<Card>
    hand,            \* Round::hand
    history,         \* Round::history
    hands_count,     \* Round::hands_count
    discards_count,  \* Round::discards_count
    score,           \* Round::score
    run_state,       \* Run::run_state
    pos,             \* CardListWidgetState::pos
    selected,        \* CardListWidgetState::selected
    hand_size,       \* RoundProperties::hand_size
    game,            \* where Game::start is: "new", "running", "failed"
    call,            \* the operation that ran last, what it returned and the
                     \* number of cards it was given
    held,            \* the card vector in the hands of a direct caller of
                     \* the round or the deck
    locked,          \* the locks another holder of the Arc has taken: a
                     \* subset of {"deck", "hand"}
    events,          \* EventHandler: the events in the channel, oldest first
    task             \* EventHandler::handler, the task that sends the
                     \* events: "none", "running", "stopped"

roundVars ==
    <<deck, hand, history, hands_count, discards_count, score, locked>>

channelVars == <<events, task>>

listVars == <<pos, selected>>

vars == <<deck, hand, history, hands_count, discards_count, score,
          run_state, pos, selected, hand_size, game, call, held, locked,
          events, task>>

\* RoundProperties and the blind Game::new gives the round
FirstAnte == 1

FinalAnte == 8

properties == [ante |-> FirstAnte, hand_size |-> hand_size, round_number |-> 1]

blind == [kind |-> "Small", boss |-> "None"]

TheRound ==
    [deck |-> deck, hand |-> hand, history |-> history,
     hands_count |-> hands_count, discards_count |-> discards_count,
     score |-> score, locked |-> locked]

SetRound(round) ==
    /\ deck' = round.deck
    /\ hand' = round.hand
    /\ history' = round.history
    /\ hands_count' = round.hands_count
    /\ discards_count' = round.discards_count
    /\ score' = round.score
    /\ locked' = round.locked

Called(op, result, n) == [op |-> op, result |-> result, n |-> n]

\* Game::new, for a deck of cards and a hand size; max_hands is any count
\* from 1 to MaxHands, max_discards is MaxDiscards
New(cards, size) ==
    /\ deck = standard(cards)
    /\ hand_size = size
    /\ hand = <<>>
    /\ history = <<>>
    /\ hands_count \in 1..MaxHands
    /\ discards_count = MaxDiscards
    /\ score = 0
    /\ run_state = "Running"
    /\ pos = <<>>
    /\ selected = {}
    /\ game = "new"
    /\ call = Called("new", "Ok", 0)
    /\ held = <<>>
    /\ locked = {}
    /\ events = <<>>
    /\ task = "none"

Init == New(DeckSize, HandSize)

(**************************************************************************)
(* Game: game.rs. One action is one turn of the loop of Game::start for   *)
(* one event: evaluate_exit, handle_run_events, handle_round_events,      *)
(* handle_deck_events, draw.                                              *)
(**************************************************************************)
\* what makes Game::draw return an error: peek_at_index_set on an index
\* outside the hand, get_target_score on the round's ante
DrawFails(cards, sel) ==
    \/ \E idx \in sel : idx >= Len(cards)
    \/ get_target_score(blind, properties.ante).err # "Ok"

\* Game::start up to the loop: Run::start, then the card list state
GameStart ==
    /\ game = "new"
    /\ \E o \in start(TheRound, properties.hand_size) :
        /\ SetRound(o.round)
        /\ call' = Called("start", o.err, properties.hand_size)
        /\ game' = IF o.err = "Ok" /\ ~DrawFails(o.round.hand, {})
                   THEN "running" ELSE "failed"
    /\ pos' = <<>>
    /\ selected' = {}
    /\ task' = "running"
    /\ UNCHANGED <<run_state, hand_size, held, events>>

\* handle_run_events with the loss decided by the hands alone
handle_run_events_loss_by_hands(state, hands, points, target) ==
    IF target.err # "Ok" THEN [run_state |-> state, err |-> target.err]
    ELSE [run_state |->
              IF hands = 0 THEN "Finished(false)"
              ELSE IF points >= target.value THEN "Finished(true)"
              ELSE state,
          err |-> "Ok"]

\* Game::handle_run_events on Event::Tick: [run_state, err]
handle_run_events(state, hands, points, target) ==
    IF target.err # "Ok" THEN [run_state |-> state, err |-> target.err]
    ELSE [run_state |->
              IF points >= target.value THEN "Finished(true)"
              ELSE IF hands = 0 /\ points < target.value
              THEN "Finished(false)"
              ELSE state,
          err |-> "Ok"]

OnTick ==
    /\ game = "running"
    /\ LET o == handle_run_events(run_state, hands_count, score,
                                  get_target_score(blind, properties.ante))
       IN  /\ run_state' = o.run_state
           /\ call' = Called("Tick", o.err, 0)
           /\ game' = IF o.err = "Ok" /\ ~DrawFails(hand, selected)
                      THEN "running" ELSE "failed"
    /\ UNCHANGED <<roundVars, listVars, hand_size, held>>

\* enter_key without the early return on an empty selection
enter_key_no_early_return(round, sel) ==
    IF round.hands_count # 0
    THEN LET d == drain_from_index_set(round.hand, sel)
             drained == [round EXCEPT !.hand = d.leftover]
         IN  {[round |-> o.round, result |-> o.err] :
                 o \in play_hand(drained, d.selected)}
    ELSE {[round |-> round, result |-> "Guarded"]}

\* Game::handle_round_events, KeyCode::Enter: [round, result]; the result
\* is "Guarded" when the count is zero, "Empty" for the early return, and
\* what play_hand returned otherwise
enter_key(round, sel) ==
    IF round.hands_count # 0
    THEN LET d == drain_from_index_set(round.hand, sel)
             drained == [round EXCEPT !.hand = d.leftover]
         IN  IF d.selected = <<>>
             THEN {[round |-> drained, result |-> "Empty"]}
             ELSE {[round |-> o.round, result |-> o.err] :
                      o \in play_hand(drained, d.selected)}
    ELSE {[round |-> round, result |-> "Guarded"]}

\* Game::handle_round_events, KeyCode::Char('x')
x_key(round, sel) ==
    IF round.discards_count # 0
    THEN LET d == drain_from_index_set(round.hand, sel)
             drained == [round EXCEPT !.hand = d.leftover]
         IN  IF d.selected = <<>>
             THEN {[round |-> drained, result |-> "Empty"]}
             ELSE {[round |-> o.round, result |-> o.err] :
                      o \in discard_hand(drained, d.selected)}
    ELSE {[round |-> round, result |-> "Guarded"]}

Returned == {"Ok", "Empty", "Guarded"}

\* the rest of the turn after the round handler: set_cards after a
\* successful call, the error leaving the loop otherwise, then draw
AfterRoundEvent(key, o) ==
    /\ SetRound(o.round)
    /\ call' = Called(key, o.result, Cardinality(selected))
    /\ pos' = IF o.result = "Ok" THEN <<>> ELSE pos
    /\ selected' = IF o.result = "Ok" THEN {} ELSE selected
    /\ game' = IF o.result \in Returned /\ ~DrawFails(hand', selected')
               THEN "running" ELSE "failed"
    /\ UNCHANGED <<run_state, hand_size, held>>

OnEnter ==
    /\ game = "running"
    /\ \E o \in enter_key(TheRound, selected) : AfterRoundEvent("Enter", o)

OnX ==
    /\ game = "running"
    /\ \E o \in x_key(TheRound, selected) : AfterRoundEvent("x", o)

\* Game::handle_deck_events
AfterDeckEvent(key, newPos, newSel) ==
    /\ pos' = newPos
    /\ selected' = newSel
    /\ call' = Called(key, "Ok", 0)
    /\ game' = IF DrawFails(hand, newSel) THEN "failed" ELSE "running"
    /\ UNCHANGED <<roundVars, run_state, hand_size, held>>

OnRight ==
    /\ game = "running"
    /\ Len(hand) > 0
    /\ AfterDeckEvent("Right", move_next(pos, Len(hand)), selected)

OnLeft ==
    /\ game = "running"
    /\ Len(hand) > 0
    /\ AfterDeckEvent("Left", move_prev(pos, Len(hand)), selected)

OnUp ==
    /\ game = "running"
    /\ AfterDeckEvent("Up", pos, select(pos, selected, SelectionLimit))

OnDown ==
    /\ game = "running"
    /\ AfterDeckEvent("Down", pos, deselect(pos, selected))

\* the keys of evaluate_exit: Esc, q, and c or C with Control alone
ExitKeys == {"Esc", "q", "Ctrl+C"}

\* evaluate_exit leaving the loop on the key itself
evaluate_exit_breaks_at_once(event) ==
    IF event \in ExitKeys \/ event = "Exit"
    THEN [continue |-> FALSE, send |-> <<>>, err |-> "Ok"]
    ELSE IF event = "ResizeSmall"
    THEN [continue |-> TRUE, send |-> <<>>, err |-> "TerminalTooSmall"]
    ELSE [continue |-> TRUE, send |-> <<>>, err |-> "Ok"]

\* Game::evaluate_exit: [continue, send, err], send being the events handed
\* to the send closure; "ResizeSmall" is a Resize below 150x40
evaluate_exit(event) ==
    IF event \in ExitKeys
    THEN [continue |-> TRUE, send |-> <<"Exit">>, err |-> "Ok"]
    ELSE IF event = "ResizeSmall"
    THEN [continue |-> TRUE, send |-> <<>>, err |-> "TerminalTooSmall"]
    ELSE IF event = "Exit"
    THEN [continue |-> FALSE, send |-> <<>>, err |-> "Ok"]
    ELSE [continue |-> TRUE, send |-> <<>>, err |-> "Ok"]

\* one turn of the loop for an event, whatever the channel holds
Tick ==
    /\ OnTick
    /\ UNCHANGED channelVars

KeyEnter ==
    /\ OnEnter
    /\ UNCHANGED channelVars

KeyX ==
    /\ OnX
    /\ UNCHANGED channelVars

KeyRight ==
    /\ OnRight
    /\ UNCHANGED channelVars

KeyLeft ==
    /\ OnLeft
    /\ UNCHANGED channelVars

KeyUp ==
    /\ OnUp
    /\ UNCHANGED channelVars

KeyDown ==
    /\ OnDown
    /\ UNCHANGED channelVars

Next ==
    \/ GameStart
    \/ Tick
    \/ KeyEnter
    \/ KeyX
    \/ KeyRight
    \/ KeyLeft
    \/ KeyUp
    \/ KeyDown

Spec == Init /\ [][Next]_vars

(**************************************************************************)
(* The run driven call by call: Run::start and the tick of the game, and  *)
(* between them a caller that takes cards out of the hand by an index set *)
(* and hands them to Round::play_hand or Round::discard_hand, whatever    *)
(* the counts are. held is the caller's vector; an error ends the run of  *)
(* the caller as it ends the loop of Game::start.                         *)
(**************************************************************************)
InitRound == New(RoundDeckSize, RoundHandSize)

\* the index sets the caller takes: none, the first card, the whole hand
DrainSets(len) == {0..(count - 1) : count \in {0, 1, len}}

Drain ==
    /\ game = "running"
    /\ held = <<>>
    /\ \E index_set \in DrainSets(Len(hand)) :
        LET d == drain_from_index_set(hand, index_set)
        IN  /\ hand' = d.leftover
            /\ held' = d.selected
            /\ call' = Called("drain", "Ok", Cardinality(index_set))
    /\ UNCHANGED <<deck, history, hands_count, discards_count, score,
                   run_state, listVars, hand_size,
                   locked, channelVars, game>>

PlayHand ==
    /\ game = "running"
    /\ call.op \in {"drain", "acquire", "release"}
    /\ \E o \in play_hand(TheRound, held) :
        /\ SetRound(o.round)
        /\ held' = o.cards
        /\ call' = Called("play_hand", o.err, Len(held))
        /\ game' = IF o.err = "Ok" THEN "running" ELSE "failed"
    /\ UNCHANGED <<run_state, listVars, hand_size,
                   channelVars>>

DiscardHand ==
    /\ game = "running"
    /\ call.op \in {"drain", "acquire", "release"}
    /\ \E o \in discard_hand(TheRound, held) :
        /\ SetRound(o.round)
        /\ held' = o.cards
        /\ call' = Called("discard_hand", o.err, Len(held))
        /\ game' = IF o.err = "Ok" THEN "running" ELSE "failed"
    /\ UNCHANGED <<run_state, listVars, hand_size,
                   channelVars>>

\* the tick comes between two calls of the caller, never inside one
TickRound ==
    /\ held = <<>>
    /\ Tick

NextRound ==
    \/ GameStart
    \/ TickRound
    \/ Drain
    \/ PlayHand
    \/ DiscardHand

SpecRound == InitRound /\ [][NextRound]_vars

(**************************************************************************)
(* The deck on its own: draw_random and shuffle applied to a deck, the    *)
(* drawn cards collected by the caller, who may put them back.            *)
(**************************************************************************)
InitDeck == New(MaxDeckLen, 0)

DrawRandom ==
    /\ \E n \in 0..MaxDraw :
        \E o \in draw_random(deck, n) :
            /\ deck' = o.deck
            /\ held' = held \o o.drawn
            /\ call' = Called("draw_random", o.err, n)
    /\ UNCHANGED <<hand, history, hands_count, discards_count, score,
                   run_state, listVars, hand_size,
                   locked, channelVars, game>>

Shuffle ==
    /\ \E s \in shuffle(deck) : deck' = s
    /\ call' = Called("shuffle", "Ok", 0)
    /\ UNCHANGED <<hand, history, hands_count, discards_count, score,
                   run_state, listVars, hand_size,
                   locked, channelVars, game, held>>

\* Vec::append of the cards drawn last
PutBack ==
    /\ held # <<>>
    /\ deck' = deck \o held
    /\ held' = <<>>
    /\ call' = Called("append", "Ok", Len(held))
    /\ UNCHANGED <<hand, history, hands_count, discards_count, score,
                   run_state, listVars, hand_size,
                   locked, channelVars, game>>

NextDeck ==
    \/ DrawRandom
    \/ Shuffle
    \/ PutBack

SpecDeck == InitDeck /\ [][NextDeck]_vars

(**************************************************************************)
(* The blind on its own: get_target_score asked for every blind and every *)
(* ante up to MaxAnte; call keeps the arguments and what was returned.    *)
(**************************************************************************)
\* enum Bosses
Bosses ==
    {"Hook", "Ox", "House", "Wall", "Wheel", "Arm", "Club", "Fish",
     "Psychic", "Goad", "Water", "Window", "Manacle", "Eye", "Mouth",
     "Plant", "Serpent", "Pillar", "Needle", "Head", "Tooth", "Flint",
     "Mark"}

\* enum Blind
Blinds ==
    {[kind |-> "Small", boss |-> "None"], [kind |-> "Big", boss |-> "None"]}
        \cup {[kind |-> "Boss", boss |-> b] : b \in Bosses}

InitBlind == New(0, 0)

GetTargetScore ==
    /\ \E b \in Blinds, ante \in 1..MaxAnte :
        LET o == get_target_score(b, ante)
        IN  call' = [op |-> "get_target_score", result |-> o.err,
                     n |-> ante, blind |-> b, value |-> o.value]
    /\ UNCHANGED <<roundVars, run_state, listVars, hand_size,
                   channelVars, game, held>>

NextBlind == GetTargetScore

SpecBlind == InitBlind /\ [][NextBlind]_vars

(**************************************************************************)
(* The scorer on its own: score_cards given a hand of one to              *)
(* MAXIMUM_SELECTABLE_CARDS cards, in the order the caller holds them or  *)
(* turned round; call keeps the hand and the ranks get_scoring_hand       *)
(* answered and the score.                                                *)
(**************************************************************************)
MAXIMUM_SELECTABLE_CARDS == 5

\* the ranks of the cards the scorer is given
ScorerRanks == <<Ace, Two, 3, 4, 5, 6, 10, 11, 12, King>>

\* the cards the scorer is given; a hand may hold a card more than once
ScorerCards ==
    [i \in 1..(Len(ScorerRanks) * ScorerSuits) |->
        Card(ScorerRanks[((i - 1) \div ScorerSuits) + 1],
             ((i - 1) % ScorerSuits) + 1)]

\* the hands of count cards, each card at or after from in ScorerCards,
\* at most off of them of another suit than the first
RECURSIVE HandsFrom(_, _, _)
HandsFrom(count, from, off) ==
    IF count = 0 THEN {<<>>}
    ELSE UNION {{<<ScorerCards[i]>> \o h :
                    h \in HandsFrom(count - 1, i,
                                    IF ScorerCards[i].suit = 1 THEN off
                                    ELSE off - 1)} :
                   i \in {j \in from..Len(ScorerCards) :
                             ScorerCards[j].suit = 1 \/ off > 0}}

ScorerHands ==
    UNION {HandsFrom(count, 1, MaxOffSuit) :
              count \in 1..MAXIMUM_SELECTABLE_CARDS}

InitScorer ==
    /\ New(0, 0)
    /\ hands_count = 1

Reversed(cards) == [i \in DOMAIN cards |-> cards[Len(cards) + 1 - i]]

\* the caller picks up a hand
TakeHand ==
    /\ call.op = "new"
    /\ held = <<>>
    /\ held' \in ScorerHands
    /\ call' = Called("take", "Ok", Len(held'))
    /\ UNCHANGED <<roundVars, run_state, listVars, hand_size,
                   channelVars, game>>

\* the caller turns the hand round
TurnHand ==
    /\ held # <<>>
    /\ held' = Reversed(held)
    /\ UNCHANGED <<roundVars, run_state, listVars, hand_size,
                   channelVars, game, call>>

ScoreCards ==
    /\ held # <<>>
    /\ \E sh \in get_scoring_hand(held) :
        call' = [op |-> "score_cards", result |-> "Ok", n |-> Len(held),
                 hand |-> sh.hand, ranks |-> sh.ranks,
                 value |-> score_scoring_hand(sh)]
    /\ UNCHANGED <<roundVars, run_state, listVars, hand_size,
                   channelVars, game, held>>

NextScorer ==
    \/ TakeHand
    \/ TurnHand
    \/ ScoreCards

SpecScorer == InitScorer /\ [][NextScorer]_vars

(**************************************************************************)
(* The index sets on their own: the hand dealt by Run::start, and a       *)
(* caller that peeks at it and drains it by any set of indices up to      *)
(* MaxIndex; call keeps the index set and what was returned.              *)
(**************************************************************************)
PeekAt ==
    /\ game = "running"
    /\ \E index_set \in SUBSET (0..MaxIndex) :
        LET o == peek_at_index_set(hand, index_set)
        IN  /\ held' = o.cards
            /\ call' = [op |-> "peek_at_index_set", result |-> o.err,
                        n |-> Cardinality(index_set),
                        index_set |-> index_set]
    /\ UNCHANGED <<roundVars, run_state, listVars, hand_size,
                   channelVars, game>>

DrainAt ==
    /\ game = "running"
    /\ \E index_set \in SUBSET (0..MaxIndex) :
        LET d == drain_from_index_set(hand, index_set)
        IN  /\ hand' = d.leftover
            /\ held' = d.selected
            /\ call' = [op |-> "drain_from_index_set", result |-> "Ok",
                        n |-> Cardinality(index_set),
                        index_set |-> index_set]
    /\ UNCHANGED <<deck, history, hands_count, discards_count, score,
                   run_state, listVars, hand_size,
                   locked, channelVars, game>>

NextIndex ==
    \/ GameStart
    \/ PeekAt
    \/ DrainAt

SpecIndex == Init /\ [][NextIndex]_vars

(**************************************************************************)
(* The order on its own: cmp asked for every two ranks and for every two  *)
(* cards of the first OrderSuits suits; call keeps the operands and the   *)
(* answer.                                                                *)
(**************************************************************************)
InitOrder == New(0, 0)

OrderCards == {Card(r, s) : r \in 1..NumRanks, s \in 1..OrderSuits}

CompareRanks ==
    /\ \E a \in 1..NumRanks, b \in 1..NumRanks :
        call' = [op |-> "Rank::cmp", result |-> RankCmp(a, b), n |-> 2,
                 self |-> a, other |-> b]
    /\ UNCHANGED <<roundVars, run_state, listVars, hand_size,
                   channelVars, game, held>>

CompareCards ==
    /\ \E a \in OrderCards, b \in OrderCards :
        call' = [op |-> "Card::cmp", result |-> CardCmp(a, b), n |-> 2,
                 self |-> a, other |-> b]
    /\ UNCHANGED <<roundVars, run_state, listVars, hand_size,
                   channelVars, game, held>>

NextOrder ==
    \/ CompareRanks
    \/ CompareCards

SpecOrder == InitOrder /\ [][NextOrder]_vars

(**************************************************************************)
(* The cursor on its own: a card list state made from a list of 0 to      *)
(* MaxListLen cards, and a caller that moves, selects and deselects. pos  *)
(* is the cursor of the list the operation is called on, the pos of a     *)
(* CardListWidgetState or of a CycleCursor over the same cards. A panic   *)
(* ends the caller.                                                       *)
(**************************************************************************)
InitCursor == New(0, 0)

\* CardListWidgetState::from / CycleCursor::from
FromCards ==
    /\ call.op = "new"
    /\ \E len \in 0..MaxListLen :
        /\ hand' = SubSeq(DEFAULT_DECK, 1, len)
        /\ call' = Called("from", "Ok", len)
    /\ pos' = <<>>
    /\ selected' = {}
    /\ game' = "running"
    /\ UNCHANGED <<deck, history, hands_count, discards_count, score,
                   run_state, hand_size,
                   locked, channelVars, held>>

\* a cursor operation of the list: the remainder by the length of an empty
\* list panics
Moved(op, newPos) ==
    /\ IF Len(hand) = 0 /\ pos # <<>>
       THEN /\ call' = Called(op, "Panic", 0)
            /\ game' = "failed"
            /\ UNCHANGED pos
       ELSE /\ call' = Called(op, "Ok", 0)
            /\ pos' = newPos
            /\ UNCHANGED game
    /\ UNCHANGED <<roundVars, run_state, selected, hand_size,
                   channelVars, held>>

MoveNext ==
    /\ game = "running"
    /\ Moved("move_next", move_next(pos, Len(hand)))

MovePrev ==
    /\ game = "running"
    /\ Moved("move_prev", move_prev(pos, Len(hand)))

Cycled(op, o) ==
    /\ call' = Called(op, o.err, 0)
    /\ pos' = o.pos
    /\ game' = IF o.err = "Ok" THEN "running" ELSE "failed"
    /\ UNCHANGED <<roundVars, run_state, selected, hand_size,
                   channelVars, held>>

CycleNext ==
    /\ game = "running"
    /\ Cycled("cycle_next", cycle_next(pos, Len(hand)))

CyclePrev ==
    /\ game = "running"
    /\ Cycled("cycle_prev", cycle_prev(pos, Len(hand)))

Select ==
    /\ game = "running"
    /\ selected' = select(pos, selected, SelectionLimit)
    /\ call' = Called("select", "Ok", 0)
    /\ UNCHANGED <<roundVars, run_state, pos, hand_size,
                   channelVars, game, held>>

Deselect ==
    /\ game = "running"
    /\ selected' = deselect(pos, selected)
    /\ call' = Called("deselect", "Ok", 0)
    /\ UNCHANGED <<roundVars, run_state, pos, hand_size,
                   channelVars, game, held>>

NextCursor ==
    \/ FromCards
    \/ MoveNext
    \/ MovePrev
    \/ CycleNext
    \/ CyclePrev
    \/ Select
    \/ Deselect

SpecCursor == InitCursor /\ [][NextCursor]_vars

(**************************************************************************)
(* The run played on after its end: the run driven call by call from the  *)
(* state Run::start leaves when it deals the four kings, the hand from    *)
(* which the first play can reach the target; the deck holds the other    *)
(* cards in any order and still has cards to deal after that play.        *)
(**************************************************************************)
\* the cards of the deck, the kings first
KingsFirst ==
    SelectSeq(standard(FinishDeckSize), LAMBDA c : c.rank = King)
        \o SelectSeq(standard(FinishDeckSize), LAMBDA c : c.rank # King)

InitFinish ==
    /\ hand = sort_by_rank(SubSeq(KingsFirst, 1, FinishHandSize))
    /\ deck \in shuffle(SubSeq(KingsFirst, FinishHandSize + 1,
                                FinishDeckSize))
    /\ hand_size = FinishHandSize
    /\ history = <<>>
    /\ hands_count \in 1..MaxHands
    /\ discards_count = MaxDiscards
    /\ score = 0
    /\ run_state = "Running"
    /\ pos = <<>>
    /\ selected = {}
    /\ game = "running"
    /\ call = Called("start", "Ok", FinishHandSize)
    /\ held = <<>>
    /\ locked = {}
    /\ events = <<>>
    /\ task = "running"

NextFinish ==
    \/ TickRound
    \/ Drain
    \/ PlayHand
    \/ DiscardHand

SpecFinish == InitFinish /\ [][NextFinish]_vars

(**************************************************************************)
(* The game with room for every redeal: the game of Game::new with one    *)
(* hand to play and a deck of exactly the cards its redeals can ask for.  *)
(**************************************************************************)
\* Game::new: RunProperties::hand_size, max_hands, max_discards
default_hand_size == 10

max_hands == 3

max_discards == 3

Min(a, b) == IF a < b THEN a ELSE b

\* the cards a game can draw: the hand dealt by start, and for every play
\* and discard as many cards as select lets through, one above the limit
CardsNeeded(size, hands, discards, limit) ==
    size + (hands + discards) * Min(limit + 1, size)

SafeDeckSize == CardsNeeded(HandSize, 1, MaxDiscards, SelectionLimit)

InitSafe ==
    /\ New(SafeDeckSize, HandSize)
    /\ hands_count = 1

SpecSafe == InitSafe /\ [][Next]_vars

(**************************************************************************)
(* The round beside another holder of the deck and of the hand: a party   *)
(* that has a clone of the Arc takes and drops the locks at any time,     *)
(* while the run is started and its round is driven call by call.         *)
(**************************************************************************)
InitLock == New(DeckSize, HandSize)

Locks == {"deck", "hand"}

\* RwLock::read / RwLock::write by the other holder
Acquire ==
    /\ game \in {"new", "running"}
    /\ \E l \in Locks \ locked : locked' = locked \cup {l}
    /\ call' = Called("acquire", "Ok", 0)
    /\ UNCHANGED <<deck, hand, history, hands_count, discards_count, score,
                   run_state, listVars, hand_size, game, held, channelVars>>

\* the guard of the other holder dropped
Release ==
    /\ game \in {"new", "running"}
    /\ \E l \in locked : locked' = locked \ {l}
    /\ call' = Called("release", "Ok", 0)
    /\ UNCHANGED <<deck, hand, history, hands_count, discards_count, score,
                   run_state, listVars, hand_size, game, held, channelVars>>

\* the caller takes the cards out of the hand under its own try_write
DrainUnlocked ==
    /\ "hand" \notin locked
    /\ Drain

NextLock ==
    \/ GameStart
    \/ Acquire
    \/ Release
    \/ DrainUnlocked
    \/ PlayHand
    \/ DiscardHand

SpecLock == InitLock /\ [][NextLock]_vars

(**************************************************************************)
(* The loop of Game::start fed from the channel: the task of the event    *)
(* handler sends ticks, keys, mouse and resize events, evaluate_exit      *)
(* sends Exit, and each turn of the loop takes the oldest event.          *)
(**************************************************************************)
InitLoop == New(LoopDeckSize, LoopHandSize)

\* what event_handler_future sends: the tick, the pressed key ("c" being
\* any key no handler reads), the mouse, the resize
ProducedEvents ==
    {"Tick", "Enter", "x", "Right", "Left", "Up", "Down", "Esc", "q",
     "Ctrl+C", "c", "Mouse", "Resize", "ResizeSmall"}

\* event_handler_future: one sender.send of the task
Produce ==
    /\ task = "running"
    /\ game = "running"
    /\ Len(events) < MaxEvents
    /\ \E e \in ProducedEvents : events' = Append(events, e)
    /\ call' = Called("send", "Ok", 0)
    /\ UNCHANGED <<roundVars, run_state, listVars, hand_size, game, held,
                   task>>

\* EventHandler::next, then evaluate_exit with send_event as its closure
Received(e) ==
    /\ game = "running"
    /\ events # <<>>
    /\ Head(events) = e
    /\ events' = Tail(events) \o evaluate_exit(e).send
    /\ UNCHANGED task

\* the rest of the turn for an event no handler reads: draw, and the break
\* when evaluate_exit answered false
Unhandled(e) ==
    LET x == evaluate_exit(e)
    IN  /\ call' = Called(e, x.err, 0)
        /\ game' = IF x.err # "Ok" \/ DrawFails(hand, selected)
                   THEN "failed"
                   ELSE IF x.continue THEN "running" ELSE "exited"
        /\ UNCHANGED <<roundVars, run_state, listVars, hand_size, held>>

LoopTick ==
    /\ Received("Tick")
    /\ OnTick

LoopEnter ==
    /\ Received("Enter")
    /\ OnEnter

LoopX ==
    /\ Received("x")
    /\ OnX

LoopRight ==
    /\ Received("Right")
    /\ OnRight

LoopLeft ==
    /\ Received("Left")
    /\ OnLeft

LoopUp ==
    /\ Received("Up")
    /\ OnUp

LoopDown ==
    /\ Received("Down")
    /\ OnDown

LoopExitKey ==
    \E e \in ExitKeys :
        /\ Received(e)
        /\ Unhandled(e)

LoopOther ==
    \E e \in {"c", "Mouse", "Resize", "ResizeSmall"} :
        /\ Received(e)
        /\ Unhandled(e)

LoopExit ==
    /\ Received("Exit")
    /\ Unhandled("Exit")

NextLoop ==
    \/ GameStart
    \/ Produce
    \/ LoopTick
    \/ LoopEnter
    \/ LoopX
    \/ LoopRight
    \/ LoopLeft
    \/ LoopUp
    \/ LoopDown
    \/ LoopExitKey
    \/ LoopOther
    \/ LoopExit

SpecLoop == InitLoop /\ [][NextLoop]_vars

(**************************************************************************)
(* The event handler on its own: the task that sends, an owner that sends *)
(* events of its own, takes the next event and stops the handler.         *)
(**************************************************************************)
InitEvents == New(0, 0)

\* EventHandler::send_event
SendEvent ==
    /\ task # "none"
    /\ Len(events) < MaxEvents
    /\ \E e \in ProducedEvents \cup {"Exit"} : events' = Append(events, e)
    /\ call' = Called("send_event", "Ok", 0)
    /\ UNCHANGED <<roundVars, run_state, listVars, hand_size, game, held,
                   task>>

\* EventHandler::next
NextEvent ==
    /\ task # "none"
    /\ events # <<>>
    /\ events' = Tail(events)
    /\ call' = [op |-> "next", result |-> "Ok", n |-> 0,
                event |-> Head(events)]
    /\ UNCHANGED <<roundVars, run_state, listVars, hand_size, game, held,
                   task>>

\* what the task may still send between the cancellation and its end
LateEvents ==
    {<<>>} \cup (IF Len(events) < MaxEvents
                 THEN {<<e>> : e \in ProducedEvents} ELSE {})

\* EventHandler::stop: the token cancelled, the handle taken and awaited
Stop ==
    /\ task # "none"
    /\ \E late \in (IF task = "running" THEN LateEvents ELSE {<<>>}) :
        events' = events \o late
    /\ task' = "stopped"
    /\ call' = Called("stop", "Ok", 0)
    /\ UNCHANGED <<roundVars, run_state, listVars, hand_size, game, held>>

NextEvents ==
    \/ GameStart
    \/ Produce
    \/ SendEvent
    \/ NextEvent
    \/ Stop

SpecEvents == InitEvents /\ [][NextEvents]_vars

(**************************************************************************)
(* Properties                                                             *)
(**************************************************************************)
\* the target score of the round in play
target == get_target_score(blind, properties.ante).value

\* C1: every tick sets run_state to Finished(false) exactly when
\* hands_count is 0 and the score is below the target, and to
\* Finished(true) exactly when the score is at least the target; a last
\* hand that reaches the target is a win, never a loss.
TickDecidesOutcome ==
    (call.op = "Tick" /\ call.result = "Ok") =>
        /\ (run_state = "Finished(false)")
                <=> (hands_count = 0 /\ score < target)
        /\ (run_state = "Finished(true)") <=> (score >= target)

\* the last hand was played and reached the target, and the tick made it a
\* win
FinalHandWins ==
    /\ call = Called("Tick", "Ok", 0)
    /\ run_state = "Finished(true)"
    /\ hands_count = 0
    /\ score >= target
    /\ Len(history) = RoundHandSize

\* C2: run_state is Finished(true) only once the blind of the final ante,
\* ante 8, is beaten; beating an earlier blind does not end the game.
WinOnlyAtFinalAnte ==
    run_state = "Finished(true)" => properties.ante = FinalAnte

\* C3: play_hand with hands_count 0 returns HandsExhaustedError, and
\* discard_hand with discards_count 0 returns DiscardsExhaustedError; the
\* round and the cards of the caller are as they were before the call.
ExhaustedCallsChangeNothing ==
    [][/\ (call'.op = "play_hand" /\ hands_count = 0) =>
            /\ call'.result = "HandsExhaustedError"
            /\ UNCHANGED <<roundVars, held>>
       /\ (call'.op = "discard_hand" /\ discards_count = 0) =>
            /\ call'.result = "DiscardsExhaustedError"
            /\ UNCHANGED <<roundVars, held>>]_vars

\* play_hand was given cards with no hand left to play
PlayedWithNoHandsLeft ==
    /\ call.op = "play_hand"
    /\ call.result = "HandsExhaustedError"
    /\ call.n > 0
    /\ hands_count = 0
    /\ held # <<>>

\* the cards the selection takes out of the hand, and the cards it leaves
PlayedCards == drain_from_index_set(hand, selected).selected

LeftoverCards == drain_from_index_set(hand, selected).leftover

\* a step that moves the selected cards to the history and puts as many
\* cards of the deck in their place
SelectionRedealt ==
    /\ Len(PlayedCards) = Cardinality(selected)
    /\ SeqToBag(LeftoverCards) (+) SeqToBag(PlayedCards) = SeqToBag(hand)
    /\ history' = history \o PlayedCards
    /\ Len(deck') = Len(deck) - Len(PlayedCards)
    /\ Len(hand') = Len(LeftoverCards) + Len(PlayedCards)
    /\ SeqToBag(hand') (+) SeqToBag(deck')
           = SeqToBag(LeftoverCards) (+) SeqToBag(deck)

\* C4: a successful play of k >= 1 selected cards takes exactly those k
\* cards out of the hand, adds their Scorer score to score, takes 1 from
\* hands_count, leaves discards_count alone, appends the k cards to the
\* history and draws k cards from the deck into the hand.
PlayEffects ==
    [][(call'.op = "Enter" /\ call'.result = "Ok") =>
        /\ Len(PlayedCards) >= 1
        /\ SelectionRedealt
        /\ (score' - score) \in score_cards(PlayedCards)
        /\ hands_count' = hands_count - 1
        /\ discards_count' = discards_count]_vars

\* a hand of two cards was played and scored
PlayedTwoCards ==
    /\ call = Called("Enter", "Ok", 2)
    /\ Len(history) = 2
    /\ score > 0
    /\ hands_count < MaxHands

\* C5: a successful discard takes 1 from discards_count, leaves score and
\* hands_count alone, moves the discarded cards to the history and draws
\* as many cards from the deck into the hand.
DiscardEffects ==
    [][(call'.op = "x" /\ call'.result = "Ok") =>
        /\ Len(PlayedCards) >= 1
        /\ SelectionRedealt
        /\ discards_count' = discards_count - 1
        /\ score' = score
        /\ hands_count' = hands_count]_vars

\* two cards were discarded
DiscardedTwoCards ==
    /\ call = Called("x", "Ok", 2)
    /\ Len(history) >= 2
    /\ discards_count < MaxDiscards

\* C6: a play or a discard that fails because the deck is short of the
\* cards to deal leaves hands_count, discards_count, score, hand, history
\* and deck as they were before the action.
FailedRedealChangesNothing ==
    [][(/\ call'.op \in {"Enter", "x"}
        /\ call'.result = "HandsExhaustedError"
        /\ Cardinality(selected) > Len(deck)) =>
            UNCHANGED roundVars]_vars

\* C7: playing or discarding with an empty selection returns early without
\* an error and leaves hands_count, discards_count, score, hand, history
\* and deck unchanged.
EmptySelectionIsNoOp ==
    [][(call'.op \in {"Enter", "x"} /\ selected = {}) =>
        /\ call'.result \in {"Empty", "Guarded"}
        /\ game' = "running"
        /\ UNCHANGED roundVars]_vars

\* Enter was pressed with hands left and nothing selected
EnterOnEmptySelection ==
    /\ call = Called("Enter", "Empty", 0)
    /\ hands_count > 0
    /\ hand # <<>>
    /\ game = "running"

\* C8: draw_random(n) with n above the size of the deck fails with
\* InsufficientCardsError, and the deck keeps its cards and their order.
OverdrawIsInsufficientCards ==
    [][(call'.op = "draw_random" /\ call'.n > Len(deck)) =>
        /\ call'.result = "InsufficientCardsError"
        /\ deck' = deck]_vars

\* C9: draw_random(n) with n at most the size of the deck returns exactly
\* n cards and takes exactly n off the deck; the cards drawn and the deck
\* left make up the deck before the call, so putting the drawn cards back
\* gives the multiset of cards the deck had.
DrawTakesExactly ==
    [][/\ (call'.op = "draw_random" /\ call'.n <= Len(deck)) =>
            /\ call'.result = "Ok"
            /\ Len(held') = Len(held) + call'.n
            /\ Len(deck') = Len(deck) - call'.n
            /\ SeqToBag(SubSeq(held', Len(held) + 1, Len(held')))
                   (+) SeqToBag(deck') = SeqToBag(deck)
       /\ (call'.op = "append") =>
            SeqToBag(deck') = SeqToBag(standard(MaxDeckLen))]_vars

\* the cards of a draw were put back on the deck
DrawnAndPutBack ==
    /\ call.op = "append"
    /\ call.n >= 2
    /\ Len(deck) = MaxDeckLen
    /\ deck # standard(MaxDeckLen)

\* C10: after start and after every successful play or discard the hand
\* holds at most properties.hand_size cards.
HandWithinHandSize ==
    (\/ call.op = "start" /\ call.result = "Ok"
     \/ call.op \in {"Enter", "x"} /\ call.result = "Ok")
        => Len(hand) <= properties.hand_size

\* cards were played and the hand is full again
HandRefilled ==
    /\ call.op \in {"Enter", "x"}
    /\ call.result = "Ok"
    /\ call.n >= 1
    /\ Len(hand) = properties.hand_size

\* C11: a value get_target_score returns for (blind, ante) is
\* 25 x score_multiplier x boss_multiplier x BASE_AMOUNTS[ante-1], with
\* score_multiplier Small 2, Big 3, Boss 4, BASE_AMOUNTS
\* [3,8,20,50,110,200,350,500], boss_multiplier 4 for Boss(Wall), 1 for
\* Boss(Needle) and 2 for every other blind; Small at ante 1 gives 300.
TargetScoreFormula ==
    (call.op = "get_target_score" /\ call.result = "Ok") =>
        LET base == <<3, 8, 20, 50, 110, 200, 350, 500>>
            by_blind == [Small |-> 2, Big |-> 3, Boss |-> 4]
            by_boss == IF call.blind = [kind |-> "Boss", boss |-> "Wall"]
                       THEN 4
                       ELSE IF call.blind = [kind |-> "Boss", boss |-> "Needle"]
                       THEN 1
                       ELSE 2
        IN  /\ call.n \in DOMAIN base
            /\ call.value = 25 * by_blind[call.blind.kind] * by_boss
                               * base[call.n]
            /\ (call.blind.kind = "Small" /\ call.n = 1) => call.value = 300

\* the target of the Wall at ante 7 was returned
WallTargetReturned ==
    /\ call.op = "get_target_score"
    /\ call.result = "Ok"
    /\ call.blind = [kind |-> "Boss", boss |-> "Wall"]
    /\ call.n = 7
    /\ call.value = 140000

\* C12: get_target_score returns a target for every ante from 1 through 8
\* and fails with the ante-exceeded error exactly when the ante is 9 or
\* more.
TargetForEveryAnte ==
    (call.op = "get_target_score") =>
        /\ (call.n \in 1..FinalAnte) => call.result = "Ok"
        /\ (call.result = "AnteExceeded") <=> (call.n >= FinalAnte + 1)

\* how often a rank is in the cards, the ranks and the suits of the cards
RankCount(cards, rank) ==
    Cardinality({i \in DOMAIN cards : cards[i].rank = rank})

HandRanks(cards) == {cards[i].rank : i \in DOMAIN cards}

HandSuits(cards) == {cards[i].suit : i \in DOMAIN cards}

\* the conditions of the categories, read off the cards
OfAKind(cards, count) ==
    \E r \in HandRanks(cards) : RankCount(cards, r) = count

ThreeAndTwo(cards) ==
    \E r, q \in HandRanks(cards) :
        r # q /\ RankCount(cards, r) = 3 /\ RankCount(cards, q) = 2

TwoAndTwo(cards) ==
    \E r, q \in HandRanks(cards) :
        r # q /\ RankCount(cards, r) = 2 /\ RankCount(cards, q) = 2

FiveOfOneSuit(cards) == Len(cards) = 5 /\ Cardinality(HandSuits(cards)) = 1

\* the rank with the Ace counted high
AceHigh(rank) == IF rank = Ace THEN King + 1 ELSE rank

\* five numbers that follow one another
IsRun(numbers) ==
    /\ Cardinality(numbers) = 5
    /\ \A a, b \in numbers : a - b <= 4

HighAceRun(cards) ==
    /\ Len(cards) = 5
    /\ Ace \in HandRanks(cards)
    /\ IsRun({AceHigh(r) : r \in HandRanks(cards)})

\* five distinct ranks in a row, the Ace only low or only high
FiveInARow(cards) ==
    /\ Len(cards) = 5
    /\ \/ IsRun(HandRanks(cards))
       \/ IsRun({AceHigh(r) : r \in HandRanks(cards)})

\* the first category, in the order of the list, whose condition the
\* cards meet
FirstCategory(cards) ==
    IF OfAKind(cards, 5) /\ FiveOfOneSuit(cards) THEN "FlushFive"
    ELSE IF ThreeAndTwo(cards) /\ FiveOfOneSuit(cards) THEN "FlushHouse"
    ELSE IF OfAKind(cards, 5) THEN "FiveOfAKind"
    ELSE IF FiveOfOneSuit(cards) /\ HighAceRun(cards) THEN "RoyalFlush"
    ELSE IF FiveOfOneSuit(cards) /\ FiveInARow(cards) THEN "StraightFlush"
    ELSE IF OfAKind(cards, 4) THEN "FourOfAKind"
    ELSE IF ThreeAndTwo(cards) THEN "FullHouse"
    ELSE IF FiveOfOneSuit(cards) THEN "Flush"
    ELSE IF FiveInARow(cards) THEN "Straight"
    ELSE IF OfAKind(cards, 3) THEN "ThreeOfAKind"
    ELSE IF TwoAndTwo(cards) THEN "TwoPair"
    ELSE IF OfAKind(cards, 2) THEN "Pair"
    ELSE "HighCard"

\* C13: for every hand of one to five cards get_scoring_hand answers the
\* first category whose condition matches in the order FlushFive,
\* FlushHouse, FiveOfAKind, RoyalFlush, StraightFlush, FourOfAKind,
\* FullHouse, Flush, Straight, ThreeOfAKind, TwoPair, Pair, HighCard.
FirstMatchingCategory ==
    (call.op = "score_cards" /\ Len(held) \in 1..5) =>
        call.hand = FirstCategory(held)

\* three and two of one suit were scored as a flush house
FlushHouseScored ==
    /\ call.op = "score_cards"
    /\ call.hand = "FlushHouse"
    /\ ThreeAndTwo(held)
    /\ FiveOfOneSuit(held)

\* C14: a hand of five cards is detected as a straight if and only if its
\* five ranks are distinct and in a row with the Ace only high
\* (A,K,Q,J,10) or only low (5,4,3,2,A); ranks in a row only by wrapping
\* through the Ace (2,A,3,K,Q) are no straight.
StraightIffFiveInARow ==
    (call.op = "score_cards" /\ Len(held) = 5) =>
        (call.hand \in {"Straight", "StraightFlush", "RoyalFlush"}
            <=> /\ \A r \in HandRanks(held) : RankCount(held, r) = 1
                /\ \/ HandRanks(held) = {Ace, King, 12, 11, 10}
                   \/ HandRanks(held) = {5, 4, 3, Two, Ace}
                   \/ \E low \in Two..(King - 4) :
                        HandRanks(held) = low..(low + 4))

\* 2, A, 3, K, Q were scored and are no straight
WrappedRunScored ==
    /\ call.op = "score_cards"
    /\ Len(held) = 5
    /\ HandRanks(held) = {Two, Ace, 3, King, 12}
    /\ call.hand = "HighCard"

\* C15: a straight of five cards of one suit is a RoyalFlush only when the
\* Ace is high (A,K,Q,J,10); with a low Ace (5,4,3,2,A) or without an Ace
\* it is a StraightFlush.
RoyalOnlyWithHighAce ==
    (call.op = "score_cards" /\ FiveOfOneSuit(held) /\ FiveInARow(held)) =>
        IF HandRanks(held) = {Ace, King, 12, 11, 10}
        THEN call.hand = "RoyalFlush"
        ELSE call.hand = "StraightFlush"

\* 5, 4, 3, 2, A of one suit were scored as a straight flush
LowAceStraightFlushScored ==
    /\ call.op = "score_cards"
    /\ FiveOfOneSuit(held)
    /\ HandRanks(held) = {5, 4, 3, Two, Ace}
    /\ call.hand = "StraightFlush"

\* the highest rank in the cards, the Ace counted high
HighestRank(cards) ==
    CHOOSE r \in HandRanks(cards) :
        \A q \in HandRanks(cards) : AceHigh(q) <= AceHigh(r)

\* what a rank scores: its face value for 2..10, 10 for Ace, Jack, Queen
\* and King
FaceScore(rank) == IF rank \in Two..10 THEN rank ELSE 10

\* C16: when a hand is a HighCard, exactly one rank is scored, and it is
\* the highest rank of the hand with the Ace counted high; the hand
\* scores (5 + score of that rank) x 1.
HighCardScoresHighest ==
    (call.op = "score_cards" /\ call.hand = "HighCard") =>
        /\ call.ranks = <<HighestRank(held)>>
        /\ call.value = (5 + FaceScore(HighestRank(held))) * 1

RECURSIVE SumOfFaceScores(_)
SumOfFaceScores(ranks) ==
    IF ranks = <<>> THEN 0
    ELSE FaceScore(Head(ranks)) + SumOfFaceScores(Tail(ranks))

\* how many cards make the pattern of a category
PatternSize ==
    [FlushFive |-> 5, FlushHouse |-> 5, FiveOfAKind |-> 5, RoyalFlush |-> 5,
     StraightFlush |-> 5, FourOfAKind |-> 4, FullHouse |-> 5, Flush |-> 5,
     Straight |-> 5, ThreeOfAKind |-> 3, TwoPair |-> 4, Pair |-> 2,
     HighCard |-> 1]

SameScoreInAnyOrder ==
    [][(call.op = "score_cards" /\ call'.op = "score_cards"
            /\ SeqToBag(held') = SeqToBag(held)) =>
        /\ call'.hand = call.hand
        /\ call'.value = call.value]_vars

\* C19: after any cursor moves, selects and deselects on a card list of
\* selection limit L the number of selected cards is at most L.
SelectionWithinLimit == Cardinality(selected) <= SelectionLimit

\* C20: an index set holding an index that is no position of the hand is
\* rejected with an invalid-index error by peek_at_index_set and by
\* drain_from_index_set, and the hand is as it was before the call.
InvalidIndexRejected ==
    [][(/\ call'.op \in {"peek_at_index_set", "drain_from_index_set"}
        /\ \E idx \in call'.index_set : idx >= Len(hand)) =>
            /\ call'.result = "InvalidIndex"
            /\ hand' = hand]_vars

\* C23: the comparison of ranks is a total order consistent with equality:
\* cmp(a, b) is Equal exactly when a = b, cmp(a, b) is Greater exactly when
\* cmp(b, a) is Less, Ace is above every other rank and the ranks Two to
\* King follow their ordinals; the cards are ordered by rank, then suit.
RankOrderIsTotal ==
    /\ call.op = "Rank::cmp" =>
        /\ (call.result = "Equal") = (call.self = call.other)
        /\ (call.result = "Greater") =
               (RankCmp(call.other, call.self) = "Less")
        /\ (call.self = Ace /\ call.other # Ace) => call.result = "Greater"
        /\ (call.self # Ace /\ call.other # Ace /\ call.self < call.other)
               => call.result = "Less"
    /\ call.op = "Card::cmp" =>
        call.result =
            IF call.self.rank # call.other.rank
            THEN RankCmp(call.self.rank, call.other.rank)
            ELSE SuitCmp(call.self.suit, call.other.suit)

LastIndex == Len(hand) - 1

ForwardOps == {"move_next", "cycle_next"}

BackwardOps == {"move_prev", "cycle_prev"}

\* C24: the cursor cycles over the list: the first move forward of an
\* unfocused cursor focuses the first item, forward from the last item
\* goes to the first and backward from the first goes to the last, a move
\* forward is undone by the move backward, and a cursor that is set is a
\* valid index of the list.
CursorCycles ==
    [][(call'.op \in ForwardOps \cup BackwardOps) =>
        /\ pos' # <<>> => pos'[1] \in 0..LastIndex
        /\ (pos = <<>> /\ call'.op \in ForwardOps) => pos' = <<0>>
        /\ (pos = <<LastIndex>> /\ call'.op \in ForwardOps) => pos' = <<0>>
        /\ (pos = <<0>> /\ call'.op \in BackwardOps) => pos' = <<LastIndex>>
        /\ (pos # <<>> /\ call'.op = "move_next")
               => move_prev(pos', Len(hand)) = pos
        /\ (pos # <<>> /\ call'.op = "cycle_next")
               => cycle_prev(pos', Len(hand)).pos = pos]_vars

IsPrefix(s, t) == Len(s) <= Len(t) /\ SubSeq(t, 1, Len(s)) = s

\* C25: no round operation, failed or successful, raises hands_count or
\* discards_count or lowers score, and history only grows at its end: what
\* was in it stays where it was.
CountsDownScoreUp ==
    [][/\ hands_count' <= hands_count
       /\ discards_count' <= discards_count
       /\ score' >= score
       /\ IsPrefix(history, history')]_vars

HistoryGrewTwice ==
    /\ call.op \in {"play_hand", "discard_hand"}
    /\ call.result = "Ok"
    /\ call.n >= 1
    /\ Len(history) > call.n
    /\ score > 0

Finished == {"Finished(true)", "Finished(false)"}

\* C26: once run_state is Finished(w) no later tick, play or discard makes
\* it Running again or Finished(not w).
FinishedIsTerminal ==
    [][(run_state \in Finished) => (run_state' = run_state)]_vars

PlayedOnAfterWin ==
    /\ run_state = "Finished(true)"
    /\ call.op = "play_hand"
    /\ call.result = "Ok"
    /\ hands_count = 0

AllCards == deck \o hand \o history

\* C27: after start and after every successful play and discard the deck,
\* the hand and the history hold together exactly the cards of the
\* standard deck, each of them once.
NoCardLostOrDuplicated ==
    game = "running" =>
        /\ SeqToBag(AllCards) = SeqToBag(standard(DeckSize))
        /\ Cardinality({AllCards[i] : i \in DOMAIN AllCards}) = DeckSize
        /\ Len(AllCards) = DeckSize

CardsAfterPlayAndDiscard ==
    /\ game = "running"
    /\ call.op = "Enter"
    /\ call.result = "Ok"
    /\ discards_count < MaxDiscards
    /\ Len(history) >= 2

\* C29: once run_state is Finished the Enter and x keys leave the round as
\* it was: hands_count, discards_count, score, hand, history and deck.
KeysIgnoredAfterFinish ==
    [][(run_state \in Finished /\ call'.op \in {"Enter", "x"}) =>
          UNCHANGED roundVars]_vars

Overdrawn == "HandsExhaustedError"

ReachesDeal ==
    \/ call'.op = "play_hand" /\ hands_count > 0 /\ held # <<>>
    \/ call'.op = "discard_hand" /\ discards_count > 0

RoundResults ==
    {"Ok", "DeckLockError", "HandsExhaustedError", "DiscardsExhaustedError",
     "EmptyHandScored"}

\* C21: start, play_hand and discard_hand reach the deck and the hand by an
\* attempt at the lock that does not wait: when another party holds the
\* lock the operation returns DeckLockError, as a value.
LockedAccessIsAnError ==
    [][(call'.op \in {"start", "play_hand", "discard_hand"}) =>
        /\ call'.result \in RoundResults
        /\ (call'.op = "start" /\ "deck" \in locked)
               => call'.result = "DeckLockError"
        /\ (ReachesDeal /\ "deck" \in locked)
               => call'.result = "DeckLockError"
        /\ (ReachesDeal /\ "deck" \notin locked /\ Len(held) <= Len(deck)
               /\ "hand" \in locked)
               => call'.result = "DeckLockError"
        /\ call'.result = "DeckLockError" => locked # {}]_vars

HandLockedAtRedeal ==
    /\ call.op = "play_hand"
    /\ call.result = "DeckLockError"
    /\ locked = {"hand"}
    /\ history # <<>>

\* C22: EventHandler::stop cancels the task that sends the events and sends
\* an Event::Exit into the channel, the last event the loop gets from the
\* handler.
StopSendsExit ==
    [][(call'.op = "stop") =>
        /\ task' = "stopped"
        /\ events' # <<>>
        /\ events'[Len(events')] = "Exit"]_vars

LoopEvents == ProducedEvents \cup {"Exit"}

\* C30: the turn that handles Esc, q or Ctrl+C puts Event::Exit into the
\* channel and the loop goes on; the loop takes the events in the order
\* they were sent, ends on the turn that takes the Exit, and does not end
\* without an error on any other turn.
ExitEndsTheLoop ==
    [][/\ (call'.op \in ExitKeys) =>
            /\ events' = Append(Tail(events), "Exit")
            /\ game' = "running"
       /\ (call'.op \in LoopEvents) =>
            /\ events # <<>>
            /\ call'.op = Head(events)
            /\ IsPrefix(Tail(events), events')
       /\ (call'.op = "Exit") => (game' = "exited")
       /\ (game # "exited" /\ game' = "exited") =>
            /\ call'.op = "Exit"
            /\ Head(events) = "Exit"]_vars

ExitedAfterEarlierEvents ==
    /\ game = "exited"
    /\ call.op = "Exit"
    /\ run_state = "Finished(false)"
    /\ events # <<>>

=============================================================================
